---------------------------- MODULE Spec2Model ----------------------------
(***************************************************************************)
(* The airport distance filter of tracking-adsb: airports.py prints the    *)
(* airports of airports.json that lie within a radius of a center, and     *)
(* airports-data.py writes the same selection to airports-data.<host>.js.  *)
(*                                                                         *)
(* Numbers.  A Python float is a record [k, v]:                            *)
(*   k = "fin"  : the number v (degrees for a coordinate, kilometres for a *)
(*                radius or a distance);                                   *)
(*   k = "tiny" : v * 1e-200, a non-zero number whose square underflows    *)
(*                to 0.0 and which is absorbed when added to a non-zero    *)
(*                "fin" number;                                            *)
(*   k = "inf"  : v * infinity (v is 1 or -1);                             *)
(*   k = "nan"  : not a number.                                            *)
(* A raised exception is a record of the same shape whose k is the         *)
(* exception's name.  Coordinates are drawn from the multiples of 60       *)
(* degrees, for which the haversine term a is a whole number of            *)
(* sixteenths; a distance is carried in whole kilometres rounded up, so    *)
(* distance <= radius has the truth value it has in the program for every  *)
(* radius that is a whole number of kilometres.                            *)
(***************************************************************************)
EXTENDS Integers, Sequences, FiniteSets

\* ----------------------------------------------------------------- bounds
MaxEntries == 2      \* entries of airports.json
MaxArgs == 4         \* positional arguments on the command line

\* ----------------------------------------------------------------- floats
Fin(n) == [k |-> "fin", v |-> n]
Tiny == [k |-> "tiny", v |-> 1]
Inf == [k |-> "inf", v |-> 1]
NaN == [k |-> "nan", v |-> 0]
None == [k |-> "None", v |-> 0]
Exc(name) == [k |-> name, v |-> 0]
IsFloat(x) == x.k \in {"fin", "tiny", "inf", "nan"}
IsExc(x) == ~IsFloat(x)

\* x - y on floats
FSub(x, y) ==
    IF x.k = "nan" \/ y.k = "nan" THEN NaN
    ELSE IF x.k = "inf" THEN (IF y.k = "inf" /\ y.v = x.v THEN NaN ELSE x)
    ELSE IF y.k = "inf" THEN [k |-> "inf", v |-> -y.v]
    ELSE IF x.k = "fin" /\ y.k = "fin" THEN Fin(x.v - y.v)
    ELSE IF x.k = "tiny" /\ y.k = "tiny"
         THEN (IF x.v = y.v THEN Fin(0) ELSE x)
    ELSE IF x.k = "tiny" THEN (IF y.v = 0 THEN x ELSE Fin(-y.v))
    ELSE (IF x.v = 0 THEN [k |-> "tiny", v |-> -y.v] ELSE x)

\* x <= y on floats: every comparison with nan is false
FLeq(x, y) ==
    IF x.k = "nan" \/ y.k = "nan" THEN FALSE
    ELSE IF x.k = "inf" THEN (x.v < 0 \/ (y.k = "inf" /\ y.v > 0))
    ELSE IF y.k = "inf" THEN y.v > 0
    ELSE IF x.k = "fin" /\ y.k = "fin" THEN x.v <= y.v
    ELSE IF x.k = "tiny" /\ y.k = "tiny" THEN x.v <= y.v
    ELSE IF x.k = "tiny" THEN (IF y.v = 0 THEN x.v < 0 ELSE 0 < y.v)
    ELSE (IF x.v = 0 THEN 0 < y.v ELSE x.v < 0)

\* x == y on floats: nan equals nothing, not even itself
FEq(x, y) == x.k # "nan" /\ x = y

Abs(n) == IF n < 0 THEN -n ELSE n

\* 4 * sin(radians(d) / 2)^2 for d a multiple of 60 degrees, |d| <= 180;
\* the square of a tiny number underflows to 0.0
SinSq4(d) ==
    IF d.k = "tiny" THEN 0
    ELSE CASE Abs(d.v) = 0 -> 0
           [] Abs(d.v) = 60 -> 1
           [] Abs(d.v) = 120 -> 3
           [] Abs(d.v) = 180 -> 4

\* 2 * cos(radians(x)) for x a multiple of 60 degrees; cos(tiny) is 1.0
Cos2(x) ==
    IF x.k = "tiny" THEN 2
    ELSE CASE Abs(x.v) = 0 -> 2
           [] Abs(x.v) = 60 -> 1
           [] Abs(x.v) = 120 -> -1
           [] Abs(x.v) = 180 -> -2

\* 2 * atan2(sqrt(a), sqrt(1 - a)) for a = a16 / 16, in units of 1e-5 radian,
\* rounded up
ArcTable ==
    <<50537, 72274, 89567, 104720, 118640, 131812, 144547, 157080,
      169613, 182348, 195520, 209440, 224593, 241886, 263624, 314160>>
Atan2Sqrt(a16) == IF a16 = 0 THEN 0 ELSE ArcTable[a16]

CeilDiv(n, d) == (n + d - 1) \div d

\* ------------------------------------------------------------ airports.py
R == 6371

\* lines 8-16: sin or cos of an infinite angle raises ValueError, a nan angle
\* gives nan, and otherwise a is a number of sixteenths
Haversine(lat1, lon1, lat2, lon2) ==
    LET dLat == FSub(lat2, lat1)
        dLon == FSub(lon2, lon1)
        args == {dLat, lat1, lat2, dLon}
    IN  IF \E x \in args : x.k = "inf" THEN Exc("ValueError")
        ELSE IF \E x \in args : x.k = "nan" THEN NaN
        ELSE LET a == 4 * SinSq4(dLat)
                        + Cos2(lat1) * Cos2(lat2) * SinSq4(dLon)
                 c == Atan2Sqrt(a)
             IN  Fin(CeilDiv(R * c, 100000))

\* ------------------------------------------------------------ JSON values
\* a scalar of the input document, or Absent for a key the object lacks
JNum(f) == [t |-> "num", f |-> f, s |-> ""]
JStr(s) == [t |-> "str", f |-> None, s |-> s]
JNull == [t |-> "null", f |-> None, s |-> ""]
JList == [t |-> "list", f |-> None, s |-> ""]
Absent == [t |-> "absent", f |-> None, s |-> ""]
\* an airport record: an object with its fields, or a value that is no object
Obj(lat, lon, name) == [t |-> "obj", lat |-> lat, lon |-> lon, name |-> name]
NonObj(t) == [t |-> t, lat |-> Absent, lon |-> Absent, name |-> Absent]

\* float() that takes every string it does not know for 0.0
ParseFloat_Lenient(s) ==
    CASE s = "0" -> Fin(0)
      [] s = "60" -> Fin(60)
      [] s = "-1" -> Fin(-1)
      [] s = "6672" -> Fin(6672)
      [] s = "8398" -> Fin(8398)
      [] s = "1e-200" -> Tiny
      [] s = "inf" -> Inf
      [] s = "nan" -> NaN
      [] OTHER -> Fin(0)

\* float(s) of a string
ParseFloat(s) ==
    CASE s = "0" -> Fin(0)
      [] s = "60" -> Fin(60)
      [] s = "-1" -> Fin(-1)
      [] s = "6672" -> Fin(6672)
      [] s = "8398" -> Fin(8398)
      [] s = "1e-200" -> Tiny
      [] s = "inf" -> Inf
      [] s = "nan" -> NaN
      [] OTHER -> Exc("ValueError")

\* float(x) of a JSON scalar
PyFloat(x) ==
    CASE x.t = "num" -> x.f
      [] x.t = "str" -> ParseFloat(x.s)
      [] OTHER -> Exc("TypeError")

\* float(airport[key]): the subscript raises TypeError on a record that is no
\* object and KeyError on a missing key, and float() then coerces the value
Coerce(airport, key) ==
    IF airport.t # "obj" THEN Exc("TypeError")
    ELSE LET x == IF key = "lat" THEN airport.lat ELSE airport.lon
         IN  IF x.t = "absent" THEN Exc("KeyError") ELSE PyFloat(x)

\* a mapping from codes to records (a dict); None is never stored
EmptyMap == [c \in {} |-> NonObj("null")]
MapPut(m, code, val) ==
    [c \in DOMAIN m \cup {code} |-> IF c = code THEN val ELSE m[c]]

\* ----------------------------------------------------------------- inputs
CodeNames == <<"AAA", "BBB", "CCC", "DDD">>
Codes == {CodeNames[i] : i \in 1..MaxEntries}

Records ==
    { Obj(JNum(Fin(0)), JNum(Fin(0)), JStr("origin")),
      Obj(JStr("0"), JStr("60"), Absent),
      Obj(JNum(Fin(60)), JNum(Fin(60)), Absent),
      Obj(JNum(Tiny), JNum(Fin(0)), Absent),
      Obj(JNum(Inf), JNum(Fin(0)), Absent),
      Obj(JStr("abc"), JNum(Fin(0)), Absent),
      Obj(JNum(Fin(0)), Absent, JStr("no lon")),
      Obj(JNull, JNum(Fin(0)), Absent),
      NonObj("list") }

Entries == [code : Codes, airport : Records]

Distinct(items) ==
    \A i, j \in 1..Len(items) : i # j => items[i].code # items[j].code

TablesOver(E) ==
    {t \in UNION {[1..n -> E] : n \in 0..MaxEntries} : Distinct(t)}

\* what open("airports.json") and json.load find
File(k, items) == [k |-> k, items |-> items]
Unread == File("unread", <<>>)
FilesOver(E) ==
    {File("absent", <<>>), File("invalid", <<>>), File("array", <<>>)}
        \cup {File("object", t) : t \in TablesOver(E)}
Files == FilesOver(Entries)

\* the command line after the script name
LatArgs == {"0", "60", "inf", "abc"}
LonArgs == {"0", "60", "abc"}
RadArgs == {"0", "6672", "inf", "nan", "abc"}
PadArgs == {"0", "abc"}
ArgLists ==
    {<<a, b, c>> : a \in LatArgs, b \in LonArgs, c \in RadArgs}
        \cup {s \in UNION {[1..n -> PadArgs] : n \in 0..MaxArgs} : Len(s) # 3}

Scripts == {"airports.py", "airports-data.py"}

\* the inputs of a session, in which one table and one center are filtered
\* again and again
PairRecords ==
    { Obj(JNum(Fin(0)), JNum(Fin(0)), JStr("origin")),
      Obj(JStr("0"), JStr("60"), Absent),
      Obj(JStr("abc"), JNum(Fin(0)), Absent),
      Obj(JNull, JNum(Fin(0)), Absent) }
PairFiles == FilesOver([code : Codes, airport : PairRecords])
PairRadArgs == {"0", "6672", "inf", "nan"}
PairArgLists ==
    {<<lat, "0", r>> : lat \in {"0", "60"}, r \in PairRadArgs}
        \cup {<<>>, <<"0", "abc", "0">>}

\* the output artifact airports-data.<hostname>.js
NoFile == [exists |-> FALSE, text |-> <<>>]
Line(text) == [text |-> text, json |-> EmptyMap]
Dumps(result) == [text |-> "json", json |-> result]
OldFile == [exists |-> TRUE, text |-> <<Line("old")>>]
Usage == Line("Usage: python script.py latitude longitude distance_km")

\* ------------------------------------------------------------------ state
VARIABLES
    script,         \* the program the process runs
    sys_argv,       \* sys.argv: the script name, then the arguments
    airports_json,  \* the content of airports.json, Unread until opened
    out_file,       \* the content of airports-data.<hostname>.js
    out_file0,      \* out_file as it was when the process started
    stdout,         \* what the process has printed
    pc,             \* the statement the process is at
    status,         \* the exit status, -1 while running
    raised,         \* the uncaught exception, "none" if none
    center_lat, center_lon, radius_km,
    airports,       \* the loaded document
    idx,            \* the position of the for loop in airports.items()
    result,
    prev            \* the process that ran before this one, NoPrev if none

vars == <<script, sys_argv, airports_json, out_file, out_file0, stdout, pc,
          status, raised, center_lat, center_lon, radius_km, airports, idx,
          result, prev>>

locals == <<center_lat, center_lon, radius_km, airports, idx, result>>
env == <<script, sys_argv, out_file0, prev>>

NoPrev == [script |-> "none", sys_argv |-> <<>>, source |-> Unread,
           status |-> -1, raised |-> "none", result |-> EmptyMap]

Fresh ==
    /\ stdout = <<>>
    /\ pc = "check"
    /\ status = -1
    /\ raised = "none"
    /\ center_lat = None /\ center_lon = None /\ radius_km = None
    /\ airports = Unread
    /\ idx = 0
    /\ result = EmptyMap

Init ==
    /\ script \in Scripts
    /\ sys_argv \in {<<script>> \o a : a \in ArgLists}
    /\ airports_json = Unread
    /\ out_file \in {NoFile, OldFile}
    /\ out_file0 = out_file
    /\ prev = NoPrev
    /\ Fresh

\* an uncaught exception ends the process with a traceback and status 1
Raise(name) ==
    /\ raised' = name
    /\ status' = 1
    /\ pc' = "exit"

\* ------------------------------------------------- airports.py: main
\* haversine(center_lat, center_lon, float(airport["lon"]),
\* float(airport["lat"])): latitude and longitude of the airport swapped
Distance_Swapped(clat, clon, airport) ==
    LET lat == Coerce(airport, "lat")
    IN  IF IsExc(lat) THEN lat
        ELSE LET lon == Coerce(airport, "lon")
             IN  IF IsExc(lon) THEN lon
                 ELSE Haversine(clat, clon, lon, lat)

\* line 34: haversine(center_lat, center_lon, float(airport["lat"]),
\* float(airport["lon"])), the arguments evaluated from left to right
Distance(clat, clon, airport) ==
    LET lat == Coerce(airport, "lat")
    IN  IF IsExc(lat) THEN lat
        ELSE LET lon == Coerce(airport, "lon")
             IN  IF IsExc(lon) THEN lon
                 ELSE Haversine(clat, clon, lat, lon)

\* distance < radius_km
Within_Strict(distance, radius) ==
    FLeq(distance, radius) /\ ~FLeq(radius, distance)

\* distance >= radius_km
Within_Reversed(distance, radius) == FLeq(radius, distance)

\* line 36: distance <= radius_km
Within(distance, radius) == FLeq(distance, radius)

\* line 38: except (KeyError, ValueError)
Caught(e) == e.k \in {"KeyError", "ValueError"}

\* len(sys.argv) < 4
WrongArgc_TooFew(argv) == Len(argv) < 4

\* line 20: len(sys.argv) != 4
WrongArgc(argv) == Len(argv) # 4

\* result[code] = a copy of the airport that keeps lat and lon only
Put_DropFields(m, code, airport) ==
    MapPut(m, code, [airport EXCEPT !.name = Absent])

\* the insertion that keeps one entry only, the first one found
Put_KeepFirst(m, code, airport) ==
    IF DOMAIN m = {} THEN MapPut(m, code, airport) ELSE m

\* line 37: result[code] = airport
Put(m, code, airport) == MapPut(m, code, airport)

\* lines 20-22: the argument count
Main_CheckArgs ==
    /\ script = "airports.py"
    /\ pc = "check"
    /\ IF WrongArgc(sys_argv)
       THEN /\ stdout' = Append(stdout, Usage)
            /\ status' = 1
            /\ pc' = "exit"
       ELSE /\ pc' = "parse"
            /\ UNCHANGED <<stdout, status>>
    /\ UNCHANGED <<raised, airports_json, out_file, locals, env>>

\* lines 24-26: the three float() calls, in order
Main_ParseArgs ==
    /\ script = "airports.py"
    /\ pc = "parse"
    /\ LET lat == ParseFloat(sys_argv[2])
           lon == ParseFloat(sys_argv[3])
           rad == ParseFloat(sys_argv[4])
           bad1 == IsExc(lat)
           bad2 == bad1 \/ IsExc(lon)
           bad3 == bad2 \/ IsExc(rad)
       IN  /\ center_lat' = IF bad1 THEN center_lat ELSE lat
           /\ center_lon' = IF bad2 THEN center_lon ELSE lon
           /\ radius_km' = IF bad3 THEN radius_km ELSE rad
           /\ IF bad3
              THEN Raise("ValueError")
              ELSE pc' = "load" /\ UNCHANGED <<status, raised>>
    /\ UNCHANGED <<stdout, airports_json, out_file, airports, idx, result, env>>

\* lines 28-32: open and load airports.json, result = {}, and the first
\* evaluation of airports.items()
Main_Load ==
    /\ script = "airports.py"
    /\ pc = "load"
    /\ \E f \in (IF airports_json = Unread THEN Files ELSE {airports_json}) :
          /\ airports_json' = f
          /\ CASE f.k = "absent" ->
                    Raise("FileNotFoundError")
                        /\ UNCHANGED <<airports, idx, result>>
               [] f.k = "invalid" ->
                    Raise("JSONDecodeError")
                        /\ UNCHANGED <<airports, idx, result>>
               [] f.k = "array" ->
                    Raise("AttributeError")
                        /\ airports' = f /\ result' = EmptyMap
                        /\ UNCHANGED idx
               [] f.k = "object" ->
                    /\ airports' = f
                    /\ result' = EmptyMap
                    /\ idx' = 1
                    /\ pc' = IF Len(f.items) = 0 THEN "emit" ELSE "scan"
                    /\ UNCHANGED <<status, raised>>
    /\ UNCHANGED <<stdout, out_file, center_lat, center_lon, radius_km, env>>

\* lines 32-39: one iteration of the loop
Main_Scan ==
    /\ script = "airports.py"
    /\ pc = "scan"
    /\ LET code == airports.items[idx].code
           airport == airports.items[idx].airport
           distance == Distance(center_lat, center_lon, airport)
       IN  IF IsExc(distance) /\ ~Caught(distance)
           THEN Raise(distance.k) /\ UNCHANGED <<idx, result>>
           ELSE /\ result' = IF IsFloat(distance)
                                  /\ Within(distance, radius_km)
                              THEN Put(result, code, airport)
                              ELSE result
                /\ idx' = idx + 1
                /\ pc' = IF idx = Len(airports.items) THEN "emit" ELSE "scan"
                /\ UNCHANGED <<status, raised>>
    /\ UNCHANGED <<stdout, airports_json, out_file, center_lat, center_lon,
                   radius_km, airports, env>>

\* line 41: print(json.dumps(result, indent=4))
Main_Emit ==
    /\ script = "airports.py"
    /\ pc = "emit"
    /\ stdout' = Append(stdout, Dumps(result))
    /\ status' = 0
    /\ pc' = "exit"
    /\ UNCHANGED <<raised, airports_json, out_file, locals, env>>

\* ------------------------------------------------------- airports-data.py
\* lines 9-17
DataHaversine(lat1, lon1, lat2, lon2) ==
    LET dLat == FSub(lat2, lat1)
        dLon == FSub(lon2, lon1)
        args == {dLat, lat1, lat2, dLon}
    IN  IF \E x \in args : x.k = "inf" THEN Exc("ValueError")
        ELSE IF \E x \in args : x.k = "nan" THEN NaN
        ELSE LET a == 4 * SinSq4(dLat)
                        + Cos2(lat1) * Cos2(lat2) * SinSq4(dLon)
                 c == Atan2Sqrt(a)
             IN  Fin(CeilDiv(R * c, 100000))

\* ------------------------------------------------- airports-data.py: main
\* line 35: haversine(center_lat, center_lon, float(airport["lat"]),
\* float(airport["lon"])), the arguments evaluated from left to right
DataDistance(clat, clon, airport) ==
    LET lat == Coerce(airport, "lat")
    IN  IF IsExc(lat) THEN lat
        ELSE LET lon == Coerce(airport, "lon")
             IN  IF IsExc(lon) THEN lon
                 ELSE DataHaversine(clat, clon, lat, lon)

\* line 37: distance <= radius_km
DataWithin(distance, radius) == FLeq(distance, radius)

\* except Exception
DataCaught_All(e) == TRUE

\* line 39: except (KeyError, ValueError)
DataCaught(e) == e.k \in {"KeyError", "ValueError"}

\* line 21: len(sys.argv) != 4
DataWrongArgc(argv) == Len(argv) # 4

\* line 38: result[code] = airport
DataPut(m, code, airport) == MapPut(m, code, airport)

\* the argument count, with the output file opened for writing first
DataMain_CheckArgs_Opens ==
    /\ script = "airports-data.py"
    /\ pc = "check"
    /\ out_file' = [exists |-> TRUE, text |-> <<>>]
    /\ IF DataWrongArgc(sys_argv)
       THEN /\ stdout' = Append(stdout, Usage)
            /\ status' = 1
            /\ pc' = "exit"
       ELSE /\ pc' = "parse"
            /\ UNCHANGED <<stdout, status>>
    /\ UNCHANGED <<raised, airports_json, locals, env>>

\* lines 21-23: the argument count
DataMain_CheckArgs ==
    /\ script = "airports-data.py"
    /\ pc = "check"
    /\ IF DataWrongArgc(sys_argv)
       THEN /\ stdout' = Append(stdout, Usage)
            /\ status' = 1
            /\ pc' = "exit"
       ELSE /\ pc' = "parse"
            /\ UNCHANGED <<stdout, status>>
    /\ UNCHANGED <<raised, airports_json, out_file, locals, env>>

\* lines 25-27: the three float() calls, in order
DataMain_ParseArgs ==
    /\ script = "airports-data.py"
    /\ pc = "parse"
    /\ LET lat == ParseFloat(sys_argv[2])
           lon == ParseFloat(sys_argv[3])
           rad == ParseFloat(sys_argv[4])
           bad1 == IsExc(lat)
           bad2 == bad1 \/ IsExc(lon)
           bad3 == bad2 \/ IsExc(rad)
       IN  /\ center_lat' = IF bad1 THEN center_lat ELSE lat
           /\ center_lon' = IF bad2 THEN center_lon ELSE lon
           /\ radius_km' = IF bad3 THEN radius_km ELSE rad
           /\ IF bad3
              THEN Raise("ValueError")
              ELSE pc' = "load" /\ UNCHANGED <<status, raised>>
    /\ UNCHANGED <<stdout, airports_json, out_file, airports, idx, result, env>>

\* lines 29-33: open and load airports.json, result = {}, and the first
\* evaluation of airports.items()
DataMain_Load ==
    /\ script = "airports-data.py"
    /\ pc = "load"
    /\ \E f \in (IF airports_json = Unread THEN Files ELSE {airports_json}) :
          /\ airports_json' = f
          /\ CASE f.k = "absent" ->
                    Raise("FileNotFoundError")
                        /\ UNCHANGED <<airports, idx, result>>
               [] f.k = "invalid" ->
                    Raise("JSONDecodeError")
                        /\ UNCHANGED <<airports, idx, result>>
               [] f.k = "array" ->
                    Raise("AttributeError")
                        /\ airports' = f /\ result' = EmptyMap
                        /\ UNCHANGED idx
               [] f.k = "object" ->
                    /\ airports' = f
                    /\ result' = EmptyMap
                    /\ idx' = 1
                    /\ pc' = IF Len(f.items) = 0 THEN "emit" ELSE "scan"
                    /\ UNCHANGED <<status, raised>>
    /\ UNCHANGED <<stdout, out_file, center_lat, center_lon, radius_km, env>>

\* lines 33-40: one iteration of the loop
DataMain_Scan ==
    /\ script = "airports-data.py"
    /\ pc = "scan"
    /\ LET code == airports.items[idx].code
           airport == airports.items[idx].airport
           distance == DataDistance(center_lat, center_lon, airport)
       IN  IF IsExc(distance) /\ ~DataCaught(distance)
           THEN Raise(distance.k) /\ UNCHANGED <<idx, result>>
           ELSE /\ result' = IF IsFloat(distance)
                                  /\ DataWithin(distance, radius_km)
                              THEN DataPut(result, code, airport)
                              ELSE result
                /\ idx' = idx + 1
                /\ pc' = IF idx = Len(airports.items) THEN "emit" ELSE "scan"
                /\ UNCHANGED <<status, raised>>
    /\ UNCHANGED <<stdout, airports_json, out_file, center_lat, center_lon,
                   radius_km, airports, env>>

\* line 42: open(f"airports-data.{socket.gethostname()}.js", "w") creates
\* the file or truncates it
DataMain_Open ==
    /\ script = "airports-data.py"
    /\ pc = "emit"
    /\ out_file' = [exists |-> TRUE, text |-> <<>>]
    /\ pc' = "write"
    /\ UNCHANGED <<stdout, status, raised, airports_json, locals, env>>

\* lines 43-46: the four writes, and the file is closed
DataMain_Write ==
    /\ script = "airports-data.py"
    /\ pc = "write"
    /\ out_file' = [out_file EXCEPT !.text =
                        out_file.text \o
                            << Line("const airportsData = "),
                               Dumps(result),
                               Line(";\n\n"),
                               Line("module.exports = airportsData;\n\n") >>]
    /\ status' = 0
    /\ pc' = "exit"
    /\ UNCHANGED <<stdout, raised, airports_json, locals, env>>

\* ---------------------------------------------------------- specification
Main ==
    \/ Main_CheckArgs
    \/ Main_ParseArgs
    \/ Main_Load
    \/ Main_Scan
    \/ Main_Emit

DataMain ==
    \/ DataMain_CheckArgs
    \/ DataMain_ParseArgs
    \/ DataMain_Load
    \/ DataMain_Scan
    \/ DataMain_Open
    \/ DataMain_Write

Next == Main \/ DataMain

Spec == Init /\ [][Next]_vars

\* ---------------------------------------------------------------- sessions
\* A session is two processes, one after the other, on the same table and the
\* same center: what changes from the first to the second is the script, the
\* radius and the order in which airports.json lists its entries.  Whatever
\* ran before the session has left its mark in the output file or none.
InitPair ==
    /\ script \in Scripts
    /\ sys_argv \in {<<script>> \o a : a \in PairArgLists}
    /\ airports_json \in PairFiles
    /\ out_file \in {NoFile, OldFile}
    /\ out_file0 = out_file
    /\ prev = NoPrev
    /\ Fresh

Range(f) == {f[i] : i \in DOMAIN f}

Reorderings(f) ==
    IF f.k = "object"
    THEN {File("object", t) :
            t \in {u \in [1..Len(f.items) -> Range(f.items)] :
                      Range(u) = Range(f.items)}}
    ELSE {f}

OtherRadius(argv) ==
    IF Len(argv) = 4
    THEN {[argv EXCEPT ![4] = r] : r \in PairRadArgs}
    ELSE {argv}

Reinvoke ==
    /\ pc = "exit"
    /\ prev = NoPrev
    /\ prev' = [script |-> script, sys_argv |-> sys_argv,
                source |-> airports_json, status |-> status,
                raised |-> raised, result |-> result]
    /\ script' \in Scripts
    /\ sys_argv' \in {[a EXCEPT ![1] = script'] : a \in OtherRadius(sys_argv)}
    /\ airports_json' \in Reorderings(airports_json)
    /\ out_file0' = out_file
    /\ stdout' = <<>>
    /\ pc' = "check"
    /\ status' = -1
    /\ raised' = "none"
    /\ center_lat' = None /\ center_lon' = None /\ radius_km' = None
    /\ airports' = Unread
    /\ idx' = 0
    /\ result' = EmptyMap
    /\ UNCHANGED out_file

NextPair == Next \/ Reinvoke

SpecPair == InitPair /\ [][NextPair]_vars

\* ------------------------------------------------------------- properties
Items == airports.items
Processed == {i \in 1..Len(Items) : i < idx}
Lat(i) == Coerce(Items[i].airport, "lat")
Lon(i) == Coerce(Items[i].airport, "lon")
\* both fields are present and coerce to numbers
WellFormed(i) == IsFloat(Lat(i)) /\ IsFloat(Lon(i))
InResult(i) == Items[i].code \in DOMAIN result
\* the haversine distance of entry i is a number and at most the radius
WithinRadius(i) ==
    LET d == Haversine(center_lat, center_lon, Lat(i), Lon(i))
    IN  IsFloat(d) /\ FLeq(d, radius_km)
AtCenter(i) == FEq(Lat(i), center_lat) /\ FEq(Lon(i), center_lon)
Finite(x) == x.k \in {"fin", "tiny"}
NumericLiterals == {"0", "60", "-1", "6672", "8398", "1e-200", "inf", "nan"}
Args(argv) == SubSeq(argv, 2, Len(argv))
SameEntries(f, g) == f.k = g.k /\ Range(f.items) = Range(g.items)
SubMap(m, n) == DOMAIN m \subseteq DOMAIN n /\ \A c \in DOMAIN m : m[c] = n[c]
Radius(argv) == ParseFloat(argv[4])
FLt(x, y) == FLeq(x, y) /\ ~FLeq(y, x)
Completed == pc = "exit" /\ status = 0

\* C1: every entry the loop has handled whose lat and lon are present and
\* coerce to numbers is in the result if and only if its haversine distance
\* from the center is at most the radius, the distance equal to the radius
\* included.
C1_IncludedIffWithin ==
    \A i \in Processed : WellFormed(i) => (InResult(i) <=> WithinRadius(i))

C1_Witness ==
    /\ Completed
    /\ \E i, j \in Processed :
          /\ WellFormed(i) /\ InResult(i)
          /\ Haversine(center_lat, center_lon, Lat(i), Lon(i)) = radius_km
          /\ WellFormed(j) /\ ~InResult(j)

\* C2: an entry whose lat or lon is absent or does not coerce to a number is
\* left out of the result, no error reaches the caller, the other entries are
\* still handled and the run completes normally.
C2_MalformedSkipped ==
    /\ \A i \in 1..Len(Items) : ~WellFormed(i) => ~InResult(i)
    /\ (airports.k = "object" /\ pc = "exit") =>
          /\ raised = "none"
          /\ status = 0
          /\ idx = Len(Items) + 1

\* C3: with a number of positional arguments other than three the program
\* prints the usage message and exits with status 1, and it has not read the
\* input, run the filter or emitted a result.
C3_UsageExit ==
    Len(sys_argv) # 4 =>
        /\ pc \in {"check", "exit"}
        /\ pc = "exit" => status = 1 /\ stdout = <<Usage>>
        /\ pc = "check" => status = -1 /\ stdout = <<>>
        /\ raised = "none"
        /\ airports_json = Unread
        /\ airports = Unread
        /\ result = EmptyMap
        /\ out_file = out_file0

C3_Witness == Len(sys_argv) = 5 /\ pc = "exit" /\ out_file0 = OldFile

\* C4 as stated: with three arguments of which one is not a number, the
\* process ends with a non-zero status and has emitted the usage message.
C4_UsageOnNonNumeric ==
    (/\ Len(sys_argv) = 4
     /\ \E i \in 2..4 : sys_argv[i] \notin NumericLiterals
     /\ pc = "exit") =>
        status # 0 /\ Usage \in Range(stdout)

\* C4 as amended: with three arguments of which one is not a number, float()
\* raises a ValueError that nothing catches: the process ends with status 1
\* before the input is read, and it prints nothing, no usage message either.
C4_NonNumericArgFatal ==
    (/\ Len(sys_argv) = 4
     /\ \E i \in 2..4 : sys_argv[i] \notin NumericLiterals) =>
        /\ pc \in {"check", "parse", "exit"}
        /\ pc = "exit" => status = 1 /\ raised = "ValueError"
        /\ stdout = <<>>
        /\ airports_json = Unread
        /\ out_file = out_file0

C4_Witness ==
    /\ Len(sys_argv) = 4
    /\ sys_argv[2] \in NumericLiterals
    /\ sys_argv[3] \in NumericLiterals
    /\ sys_argv[4] \notin NumericLiterals
    /\ pc = "exit"

\* C5: every code of the result is a code of the table and maps to the very
\* record the table holds for it, and the loaded table is what the input
\* held, before, during and after the scan.
C5_ResultIsSubMapping ==
    /\ \A c \in DOMAIN result :
          \E i \in 1..Len(Items) :
             Items[i].code = c /\ result[c] = Items[i].airport
    /\ airports # Unread => airports = airports_json

C5_Witness ==
    /\ Completed
    /\ \E c \in DOMAIN result : result[c].name # Absent
    /\ \E i \in 1..Len(Items) : ~InResult(i)

\* C8 as stated: with radius 0, a handled well-formed airport is in the
\* result if and only if its coordinates are those of the center.
C8_OnlyCoincident ==
    radius_km = Fin(0) =>
        \A i \in Processed : WellFormed(i) => (InResult(i) <=> AtCenter(i))

\* C8 as amended: with radius 0 and a center of finite coordinates, a handled
\* airport at the center's exact coordinates is in the result; and whatever
\* the center, a handled well-formed airport is left out unless the haversine
\* distance computed for it is exactly 0.0, which is the case at the center
\* and also so close to it that the haversine term underflows to zero.
C8_ZeroRadius ==
    radius_km = Fin(0) =>
        \A i \in Processed :
            WellFormed(i) =>
                /\ (Finite(center_lat) /\ Finite(center_lon) /\ AtCenter(i))
                        => InResult(i)
                /\ InResult(i) =>
                        Haversine(center_lat, center_lon, Lat(i), Lon(i))
                            = Fin(0)

C8_Witness ==
    /\ Completed
    /\ radius_km = Fin(0)
    /\ \E i, j \in Processed :
          /\ AtCenter(i) /\ InResult(i) /\ center_lat = Fin(60)
          /\ WellFormed(j) /\ ~AtCenter(j) /\ ~InResult(j) /\ Finite(Lat(j))

\* C10: the output file differs from what it was when the process started
\* only once the arguments were accepted, the input loaded and every entry
\* scanned; a process that ends in failure leaves it as it was, and one that
\* ends well has written the mapping of the finished scan.
C10_OutputOnlyAfterScan ==
    script = "airports-data.py" =>
        /\ out_file # out_file0 =>
              /\ pc \in {"write", "exit"}
              /\ raised = "none"
              /\ Len(sys_argv) = 4
              /\ airports.k = "object"
              /\ idx = Len(Items) + 1
        /\ (pc = "exit" /\ status # 0) => out_file = out_file0
        /\ Completed =>
              /\ out_file.exists
              /\ Len(out_file.text) = 4
              /\ out_file.text[2] = Dumps(result)
              /\ idx = Len(Items) + 1

C10_Witness ==
    /\ script = "airports-data.py"
    /\ Completed
    /\ out_file0 = OldFile
    /\ Cardinality(DOMAIN result) = 1
    /\ Len(Items) = 2

\* C6: when the same table is filtered around the same center with two
\* radii, the smaller radius returns a sub-mapping of what the larger returns.
C6_MonotoneInRadius ==
    (/\ Completed
     /\ prev.status = 0
     /\ SameEntries(prev.source, airports_json)
     /\ SubSeq(prev.sys_argv, 2, 3) = SubSeq(sys_argv, 2, 3)) =>
        /\ FLt(Radius(prev.sys_argv), Radius(sys_argv))
              => SubMap(prev.result, result)
        /\ FLt(Radius(sys_argv), Radius(prev.sys_argv))
              => SubMap(result, prev.result)

C6_Witness ==
    /\ Completed
    /\ prev.status = 0
    /\ FLt(Radius(prev.sys_argv), Radius(sys_argv))
    /\ prev.source # airports_json
    /\ DOMAIN prev.result # {}
    /\ DOMAIN prev.result # DOMAIN result

\* C7: two runs of one script with the same arguments on tables that hold
\* the same entries, in whatever order, and whatever ran before, end the
\* same way and, when the scan completes, with the same result mapping.
C7_OrderIndependent ==
    (/\ pc = "exit"
     /\ prev.script = script
     /\ Args(prev.sys_argv) = Args(sys_argv)
     /\ SameEntries(prev.source, airports_json)) =>
        /\ prev.status = status
        /\ prev.raised = raised
        /\ status = 0 => prev.result = result

C7_Witness ==
    /\ Completed
    /\ prev.script = script
    /\ Args(prev.sys_argv) = Args(sys_argv)
    /\ prev.source # airports_json
    /\ Cardinality(DOMAIN result) = 2

\* C9: run on the same arguments and the same content of airports.json, the
\* two scripts end the same way (usage exit, uncaught error or completed
\* scan) and hold the same result mapping.
C9_VariantsAgree ==
    (/\ pc = "exit"
     /\ prev.script \in Scripts \ {script}
     /\ Args(prev.sys_argv) = Args(sys_argv)
     /\ prev.source = airports_json) =>
        /\ prev.status = status
        /\ prev.raised = raised
        /\ prev.result = result

C9_Witness ==
    /\ pc = "exit"
    /\ raised = "TypeError"
    /\ prev.script \in Scripts \ {script}
    /\ Args(prev.sys_argv) = Args(sys_argv)
    /\ prev.source = airports_json
    /\ DOMAIN result # {}
=============================================================================
